---- MODULE Spec2Model ----
(***************************************************************************)
(* A model of the poster-tiler application: the PosterSplitter component   *)
(* (src/poster-tiler/src/App.tsx) and the DoorTags component               *)
(* (src/poster-tiler/src/DoorTags.tsx).                                    *)
(*                                                                         *)
(* Text typed into a control is a sequence of one-character strings.       *)
(* Lengths in millimetres that the code computes by a division are kept    *)
(* as exact fractions (a numerator over the divisor).                      *)
(***************************************************************************)
EXTENDS Integers, Sequences, FiniteSets

VARIABLES
    tab,        \* App: which component is mounted
    ps,         \* PosterSplitter: the useState fields
    loading,    \* PosterSplitter: images whose onload has not fired yet
    dt,         \* DoorTags: the useState fields
    runs,       \* DoorTags: the calls of generatePDF suspended on a photo load
    alertMsg,   \* the alert() shown by the last handler ("" when none)
    saved,      \* the document doc.save() wrote in the last handler
    canvases    \* the canvases the last handler created

vars == <<tab, ps, loading, dt, runs, alertMsg, saved, canvases>>

(***************************************************************************)
(* Constants of the source                                                 *)
(***************************************************************************)
PAPER == [A4 |-> [w |-> 210, h |-> 297], Letter |-> [w |-> 216, h |-> 279]]

LIMITS == [colsRows |-> [min |-> 1, max |-> 20, fallback |-> 3],
           dpi      |-> [min |-> 96, max |-> 600, fallback |-> 300],
           mm       |-> [min |-> 0, max |-> 20]]

BRAND == "PosterSplitter"

MAX_TILES == 8 * 8
MP_HIGH == 50
MP_MED == 25

\* The value parseInt returns for text that does not start with a number.
\* No control of the program keeps a number this small.
NaN == -1000000000

NoImg == [width |-> 0, height |-> 0]
\* A saved document: its file name, its pages, and req, the grid and the number
\* of entries of the call that wrote it.
NoDoc == [name |-> "", pages |-> <<>>, req |-> [n |-> 0, rows |-> 0, cols |-> 0]]

(***************************************************************************)
(* utils                                                                   *)
(***************************************************************************)
IsNaN(n) == n = NaN

\* Math.max and Math.min: NaN when an argument is NaN.
MathMax(a, b) == IF IsNaN(a) \/ IsNaN(b) THEN NaN ELSE IF a >= b THEN a ELSE b
MathMin(a, b) == IF IsNaN(a) \/ IsNaN(b) THEN NaN ELSE IF a <= b THEN a ELSE b

clamp(n, min, max) == MathMin(max, MathMax(min, n))

Digit == [c \in {"0", "1", "2", "3", "4", "5", "6", "7", "8", "9"} |->
            CASE c = "0" -> 0 [] c = "1" -> 1 [] c = "2" -> 2 [] c = "3" -> 3
              [] c = "4" -> 4 [] c = "5" -> 5 [] c = "6" -> 6 [] c = "7" -> 7
              [] c = "8" -> 8 [] c = "9" -> 9]
IsDigit(c) == c \in DOMAIN Digit
IsSpace(c) == c \in {" ", "\n", "\r", "\t"}

RECURSIVE SkipSpace(_)
SkipSpace(s) == IF s # <<>> /\ IsSpace(Head(s)) THEN SkipSpace(Tail(s)) ELSE s

\* The value of the leading digits of s, continuing from acc.
RECURSIVE LeadingDigits(_, _)
LeadingDigits(s, acc) ==
    IF s # <<>> /\ IsDigit(Head(s))
    THEN LeadingDigits(Tail(s), 10 * acc + Digit[Head(s)])
    ELSE acc

\* parseInt(raw, 10): leading white space, a sign, then digits up to the first
\* other character; NaN when there is no digit.
parseInt(raw) ==
    LET t == SkipSpace(raw)
        signed == t # <<>> /\ Head(t) \in {"-", "+"}
        u == IF signed THEN Tail(t) ELSE t
    IN  IF u = <<>> \/ ~IsDigit(Head(u)) THEN NaN
        ELSE IF signed /\ Head(t) = "-" THEN 0 - LeadingDigits(u, 0)
        ELSE LeadingDigits(u, 0)

\* String(n) of an integer n >= 0.
RECURSIVE String(_)
String(n) ==
    LET d == CHOOSE c \in DOMAIN Digit : Digit[c] = n % 10
    IN  IF n < 10 THEN <<d>> ELSE Append(String(n \div 10), d)

toIntInRange(raw, min, max, fallback) ==
    LET n == parseInt(raw)
    IN  IF IsNaN(n) THEN fallback ELSE clamp(n, min, max)

\* Math.trunc in the place of Math.round: the fraction dropped.
MathTrunc(num, den) == num \div den
\* Math.round(num / den) for den > 0: the nearest integer, a half rounding up.
MathRound(num, den) == (2 * num + den) \div (2 * den)

\* Math.round(mm / 25.4 * clamp(dpi)), with mm / 25.4 * d = 10 * mm * d / 254.
mmToPx(mm, dpi) ==
    MathRound(10 * mm * clamp(dpi, LIMITS.dpi.min, LIMITS.dpi.max), 254)

\* The caps applied from the limit on, not above it.
MegaOverOrEqual(img, limit) == img.width * img.height >= limit * 1000000
\* mega > limit, with mega = width * height / 1e6.
MegaOver(img, limit) == img.width * img.height > limit * 1000000

\* The note given for every large image, whether or not the DPI was lowered.
computeSafeDpiNoteAlways(img, requested) ==
    IF img = NoImg THEN [dpi |-> requested, reason |-> ""]
    ELSE LET capped ==
                 IF MegaOver(img, MP_HIGH)
                 THEN [dpi |-> MathMin(requested, 200),
                       reason |-> "Large image: DPI capped to 200."]
                 ELSE IF MegaOver(img, MP_MED)
                 THEN [dpi |-> MathMin(requested, 240),
                       reason |-> "Big image: DPI capped to 240."]
                 ELSE [dpi |-> requested, reason |-> ""]
         IN  [dpi |-> clamp(capped.dpi, LIMITS.dpi.min, LIMITS.dpi.max),
              reason |-> capped.reason]

computeSafeDpi(img, requested) ==
    IF img = NoImg THEN [dpi |-> requested, reason |-> ""]
    ELSE LET capped ==
                 IF MegaOver(img, MP_HIGH)
                 THEN IF requested > 200
                      THEN [dpi |-> 200, reason |-> "Large image: DPI capped to 200."]
                      ELSE [dpi |-> requested, reason |-> ""]
                 ELSE IF MegaOver(img, MP_MED)
                 THEN IF requested > 240
                      THEN [dpi |-> 240, reason |-> "Big image: DPI capped to 240."]
                      ELSE [dpi |-> requested, reason |-> ""]
                 ELSE [dpi |-> requested, reason |-> ""]
         IN  [dpi |-> clamp(capped.dpi, LIMITS.dpi.min, LIMITS.dpi.max),
              reason |-> capped.reason]

(***************************************************************************)
(* PosterSplitter: the values derived on every render                      *)
(***************************************************************************)
cols == toIntInRange(ps.colsRaw, LIMITS.colsRows.min, LIMITS.colsRows.max, LIMITS.colsRows.fallback)
rows == toIntInRange(ps.rowsRaw, LIMITS.colsRows.min, LIMITS.colsRows.max, LIMITS.colsRows.fallback)
margin == toIntInRange(ps.marginRaw, LIMITS.mm.min, LIMITS.mm.max, 0)
overlap == toIntInRange(ps.overlapRaw, LIMITS.mm.min, LIMITS.mm.max, 5)
requestedDpi == toIntInRange(ps.dpiRaw, LIMITS.dpi.min, LIMITS.dpi.max, LIMITS.dpi.fallback)

base == PAPER[ps.paper]
\* A square image taken for portrait: > for >=.
imgIsLandscapeStrict == IF ps.img # NoImg THEN ps.img.width > ps.img.height ELSE TRUE
\* img ? img.width >= img.height : true
imgIsLandscape == IF ps.img # NoImg THEN ps.img.width >= ps.img.height ELSE TRUE
effOrientation ==
    IF ps.orientation = "auto"
    THEN (IF imgIsLandscape THEN "landscape" ELSE "portrait")
    ELSE ps.orientation
P == IF effOrientation = "portrait" THEN base ELSE [w |-> base.h, h |-> base.w]

effectiveDpi == computeSafeDpi(ps.img, requestedDpi).dpi
dpiReason == computeSafeDpi(ps.img, requestedDpi).reason

(***************************************************************************)
(* generatePDF of PosterSplitter                                           *)
(***************************************************************************)
contentWpx == mmToPx(P.w - 2 * margin, effectiveDpi)
contentHpx == mmToPx(P.h - 2 * margin, effectiveDpi)
overlapPx == mmToPx(overlap, effectiveDpi)

tgtW == cols * contentWpx - (cols - 1) * overlapPx
tgtH == rows * contentHpx - (rows - 1) * overlapPx

\* The tile guard as it would be with >= for >, and with a test of each side.
TooManyTilesLoose == rows * cols >= MAX_TILES
TooManyTilesEach == rows > 8 /\ cols > 8
\* rows * cols > MAX_TILES
TooManyTiles == rows * cols > MAX_TILES

\* The canvas guard as it would be with >= for >.
CanvasTooLargeOrEqual(w, h) == w * h >= 12000 * 12000
\* tgtW * tgtH > 12000 * 12000
CanvasTooLarge(w, h) == w * h > 12000 * 12000

jsOrientation ==
    IF (IF ps.orientation = "auto"
        THEN (IF imgIsLandscape THEN "landscape" ELSE "portrait")
        ELSE ps.orientation) = "landscape"
    THEN "landscape" ELSE "portrait"

\* The scale of the image on the master canvas, a quotient n / d:
\* Math.max(tgtW / sW, tgtH / sH) to cover, Math.min of the two to contain.
sW == ps.img.width
sH == ps.img.height
scaleCover ==
    IF tgtW * sH >= tgtH * sW THEN [n |-> tgtW, d |-> sW] ELSE [n |-> tgtH, d |-> sH]
scaleContain ==
    IF tgtW * sH <= tgtH * sW THEN [n |-> tgtW, d |-> sW] ELSE [n |-> tgtH, d |-> sH]
\* The two modes taken for each other.
scaleSwapped == IF ps.fitMode = "cover" THEN scaleContain ELSE scaleCover
scale == IF ps.fitMode = "cover" THEN scaleCover ELSE scaleContain

\* Math.round(num / den) where num / den is the product of a length and the
\* scale, computed in floating point: a product that is exactly half way
\* between two integers may come out on either side.
RoundOfProduct(num, den) ==
    IF (2 * num) % den = 0 /\ ((2 * num) \div den) % 2 = 1
    THEN {num \div den, num \div den + 1}
    ELSE {MathRound(num, den)}

\* drawW, drawH, dx and dy of the drawImage call on the master canvas.
Draws ==
    {[drawW |-> w, drawH |-> h,
      dx |-> MathRound(tgtW - w, 2), dy |-> MathRound(tgtH - h, 2)] :
        w \in RoundOfProduct(sW * scale.n, scale.d),
        h \in RoundOfProduct(sH * scale.n, scale.d)}

\* The values generatePDF computes before its loops, each computed once.
Layout ==
    LET c == cols
        r == rows
        w == contentWpx
        h == contentHpx
        o == overlapPx
    IN  [cols |-> c, rows |-> r, contentWpx |-> w, contentHpx |-> h, overlapPx |-> o,
         tgtW |-> c * w - (c - 1) * o, tgtH |-> r * h - (r - 1) * o,
         format |-> <<P.w, P.h>>, orientation |-> jsOrientation]

\* The preview scale k = Math.min(maxSide / tgtW, maxSide / tgtH) || 1, a
\* quotient n / d.
PreviewScale(w, h) ==
    IF MathMax(w, h) > 0 THEN [n |-> 900, d |-> MathMax(w, h)] ELSE [n |-> 1, d |-> 1]

\* The preview with the grid drawn at every full tile width, the overlap
\* forgotten.
PreviewStepFull ==
    LET w == mmToPx(P.w - 2 * margin, effectiveDpi)
        h == mmToPx(P.h - 2 * margin, effectiveDpi)
        o == mmToPx(overlap, effectiveDpi)
        tw == cols * w - (cols - 1) * o
        th == rows * h - (rows - 1) * o
        k == PreviewScale(tw, th)
    IN  [contentWpx |-> w, contentHpx |-> h, overlapPx |-> o, tgtW |-> tw, tgtH |-> th,
         k |-> k,
         stepX |-> [px |-> w, k |-> k],
         stepY |-> [px |-> h, k |-> k]]
\* The values the preview effect computes when there is an image: the
\* geometry in pixels of the export, the scale k of the preview canvas, and
\* the grid steps stepX and stepY, each the product px * k kept as its two
\* factors.
Preview ==
    LET w == mmToPx(P.w - 2 * margin, effectiveDpi)
        h == mmToPx(P.h - 2 * margin, effectiveDpi)
        o == mmToPx(overlap, effectiveDpi)
        tw == cols * w - (cols - 1) * o
        th == rows * h - (rows - 1) * o
        k == PreviewScale(tw, th)
    IN  [contentWpx |-> w, contentHpx |-> h, overlapPx |-> o, tgtW |-> tw, tgtH |-> th,
         k |-> k,
         stepX |-> [px |-> w - o, k |-> k],
         stepY |-> [px |-> h - o, k |-> k]]

\* Crops laid edge to edge, the overlap forgotten.
TileCropNoOverlap(g, r, c) ==
    [sx |-> c * g.contentWpx, sy |-> r * g.contentHpx,
     w |-> g.contentWpx, h |-> g.contentHpx]
\* The crop of tile (r, c) in the master canvas.
TileCrop(g, r, c) ==
    [sx |-> c * (g.contentWpx - g.overlapPx), sy |-> r * (g.contentHpx - g.overlapPx),
     w |-> g.contentWpx, h |-> g.contentHpx]

\* The page new jsPDF makes, and the page doc.addPage appends.
FirstPage(g) == [format |-> g.format, orientation |-> g.orientation, images |-> <<>>]
AddedPage(g) == [format |-> g.format, orientation |-> g.orientation, images |-> <<>>]

\* doc.addImage on a page.
AddImage(page, tile) == [page EXCEPT !.images = Append(@, tile)]

Tile(g, r, c) == [r |-> r, c |-> c, crop |-> TileCrop(g, r, c)]

\* The inner loop: the tiles of row r from column c on, in the order made.
RECURSIVE RowTiles(_, _, _)
RowTiles(g, r, c) ==
    IF c >= g.cols THEN <<>> ELSE <<Tile(g, r, c)>> \o RowTiles(g, r, c + 1)

\* The loops swapped: the tiles column by column.
RECURSIVE TileLoopColumnMajor(_, _)
TileLoopColumnMajor(g, r) ==
    IF r >= g.cols THEN <<>>
    ELSE [k \in 1..g.rows |-> Tile(g, k - 1, r)] \o TileLoopColumnMajor(g, r + 1)

\* The outer loop: the tiles of the rows from r on, in the order made.
RECURSIVE TileLoop(_, _)
TileLoop(g, r) ==
    IF r >= g.rows THEN <<>> ELSE RowTiles(g, r, 0) \o TileLoop(g, r + 1)

\* The document the loops leave: the first tile made, tile (0, 0), goes on
\* the page new jsPDF made, every later one on a page that doc.addPage
\* appends before it.
Pages(g) ==
    LET tiles == TileLoop(g, 0)
    IN  [k \in 1..Len(tiles) |->
            AddImage(IF k = 1 THEN FirstPage(g) ELSE AddedPage(g), tiles[k])]

TileWarning == "That's a lot of pages. Keep tiles <= 8x8."
CanvasWarning == "Output canvas would be extremely large. Lower DPI/tiles."

\* generatePDF with the master canvas created before the canvas guard.
GeneratePDFAllocFirst ==
    /\ tab = "splitter"
    /\ LET g == Layout
       IN  IF ps.img = NoImg
           THEN /\ alertMsg' = "Please upload an image first."
                /\ saved' = NoDoc
                /\ canvases' = 0
           ELSE IF TooManyTiles
           THEN /\ alertMsg' = TileWarning
                /\ saved' = NoDoc
                /\ canvases' = 0
           ELSE IF CanvasTooLarge(g.tgtW, g.tgtH)
           THEN /\ alertMsg' = CanvasWarning
                /\ saved' = NoDoc
                /\ canvases' = 1
           ELSE /\ alertMsg' = ""
                /\ saved' = [name |-> "PosterSplitter.pdf", pages |-> Pages(g),
                           req |-> [n |-> g.rows * g.cols, rows |-> g.rows, cols |-> g.cols]]
                /\ canvases' = 1 + g.rows * g.cols
    /\ UNCHANGED <<tab, ps, loading, dt, runs>>

\* generatePDF: the guards in the order of the code, each returning before
\* anything is created; canvases counts the master and tile canvases made.
GeneratePDF ==
    /\ tab = "splitter"
    /\ LET g == Layout
       IN  IF ps.img = NoImg
           THEN /\ alertMsg' = "Please upload an image first."
                /\ saved' = NoDoc
                /\ canvases' = 0
           ELSE IF TooManyTiles
           THEN /\ alertMsg' = TileWarning
                /\ saved' = NoDoc
                /\ canvases' = 0
           ELSE IF CanvasTooLarge(g.tgtW, g.tgtH)
           THEN /\ alertMsg' = CanvasWarning
                /\ saved' = NoDoc
                /\ canvases' = 0
           ELSE /\ alertMsg' = ""
                /\ saved' = [name |-> "PosterSplitter.pdf", pages |-> Pages(g),
                           req |-> [n |-> g.rows * g.cols, rows |-> g.rows, cols |-> g.cols]]
                /\ canvases' = 1 + g.rows * g.cols
    /\ UNCHANGED <<tab, ps, loading, dt, runs>>

(***************************************************************************)
(* PosterSplitter: the controls                                            *)
(***************************************************************************)
\* A handler that neither alerts nor saves nor draws for export.
Quiet == alertMsg' = "" /\ saved' = NoDoc /\ canvases' = 0

PosterInit ==
    [img |-> NoImg,
     colsRaw |-> <<"3">>, rowsRaw |-> <<"3">>, marginRaw |-> <<"0">>,
     overlapRaw |-> <<"5">>, dpiRaw |-> <<"3", "0", "0">>,
     paper |-> "A4", fitMode |-> "cover", orientation |-> "auto"]

\* setFile(f) and its effect: no file clears the image at once; a file
\* starts loading and the image is replaced when its onload fires.
SetFile(f) ==
    /\ tab = "splitter"
    /\ IF f = NoImg
       THEN ps' = [ps EXCEPT !.img = NoImg] /\ UNCHANGED loading
       ELSE loading' = loading \cup {f} /\ UNCHANGED ps
    /\ Quiet
    /\ UNCHANGED <<tab, dt, runs>>

ImgOnload(i) ==
    /\ tab = "splitter"
    /\ i \in loading
    /\ ps' = [ps EXCEPT !.img = i]
    /\ loading' = loading \ {i}
    /\ Quiet
    /\ UNCHANGED <<tab, dt, runs>>

SetColsRaw(v) == tab = "splitter" /\ ps' = [ps EXCEPT !.colsRaw = v] /\ Quiet /\ UNCHANGED <<tab, loading, dt, runs>>
SetRowsRaw(v) == tab = "splitter" /\ ps' = [ps EXCEPT !.rowsRaw = v] /\ Quiet /\ UNCHANGED <<tab, loading, dt, runs>>
SetMarginRaw(v) == tab = "splitter" /\ ps' = [ps EXCEPT !.marginRaw = v] /\ Quiet /\ UNCHANGED <<tab, loading, dt, runs>>
SetOverlapRaw(v) == tab = "splitter" /\ ps' = [ps EXCEPT !.overlapRaw = v] /\ Quiet /\ UNCHANGED <<tab, loading, dt, runs>>
SetDpiRaw(v) == tab = "splitter" /\ ps' = [ps EXCEPT !.dpiRaw = v] /\ Quiet /\ UNCHANGED <<tab, loading, dt, runs>>
SetPaper(v) == tab = "splitter" /\ ps' = [ps EXCEPT !.paper = v] /\ Quiet /\ UNCHANGED <<tab, loading, dt, runs>>
SetOrientation(v) == tab = "splitter" /\ ps' = [ps EXCEPT !.orientation = v] /\ Quiet /\ UNCHANGED <<tab, loading, dt, runs>>
SetFitMode(v) == tab = "splitter" /\ ps' = [ps EXCEPT !.fitMode = v] /\ Quiet /\ UNCHANGED <<tab, loading, dt, runs>>

\* raw || fallback for a string: the fallback for the empty string.
OrElse(raw, fallback) == IF raw = <<>> THEN fallback ELSE raw

\* n || fallback: the fallback for NaN and for 0.
OrFallback(n, fallback) == IF IsNaN(n) \/ n = 0 THEN fallback ELSE n

\* onBlur of the numeric fields: the text becomes the value in use; the DPI
\* field has a computation of its own.
BlurCols == tab = "splitter" /\ ps' = [ps EXCEPT !.colsRaw = String(cols)] /\ Quiet /\ UNCHANGED <<tab, loading, dt, runs>>
BlurRows == tab = "splitter" /\ ps' = [ps EXCEPT !.rowsRaw = String(rows)] /\ Quiet /\ UNCHANGED <<tab, loading, dt, runs>>
BlurMargin == tab = "splitter" /\ ps' = [ps EXCEPT !.marginRaw = String(margin)] /\ Quiet /\ UNCHANGED <<tab, loading, dt, runs>>
BlurOverlap == tab = "splitter" /\ ps' = [ps EXCEPT !.overlapRaw = String(overlap)] /\ Quiet /\ UNCHANGED <<tab, loading, dt, runs>>
BlurDpi ==
    /\ tab = "splitter"
    /\ ps' = [ps EXCEPT !.dpiRaw =
                 String(clamp(OrFallback(parseInt(OrElse(ps.dpiRaw, <<"0">>)), LIMITS.dpi.fallback),
                              LIMITS.dpi.min, LIMITS.dpi.max))]
    /\ Quiet
    /\ UNCHANGED <<tab, loading, dt, runs>>

(***************************************************************************)
(* DoorTags                                                                *)
(***************************************************************************)
\* Arithmetic of JavaScript numbers that may be NaN.
nAdd(a, b) == IF IsNaN(a) \/ IsNaN(b) THEN NaN ELSE a + b
nSub(a, b) == IF IsNaN(a) \/ IsNaN(b) THEN NaN ELSE a - b
nMul(a, b) == IF IsNaN(a) \/ IsNaN(b) THEN NaN ELSE a * b

DoorInit ==
    [paper |-> "A4", rows |-> 4, cols |-> 3, margin |-> 10, gutter |-> 4,
     includePhoto |-> TRUE, fontSize |-> 18,
     namesRaw |-> <<>>, names |-> <<>>, nameEdits |-> <<>>,
     imageURLs |-> <<>>, imgIndexByName |-> <<>>]

\* namesRaw.split(/\r?\n|,/): the pieces of s, cur being the piece under way.
RECURSIVE Split(_, _, _)
Split(s, cur, acc) ==
    IF s = <<>> THEN Append(acc, cur)
    ELSE IF Head(s) \in {"\n", ","} THEN Split(Tail(s), <<>>, Append(acc, cur))
    ELSE IF Head(s) = "\r" /\ Len(s) >= 2 /\ s[2] = "\n"
    THEN Split(Tail(Tail(s)), <<>>, Append(acc, cur))
    ELSE Split(Tail(s), Append(cur, Head(s)), acc)

RECURSIVE TrimEnd(_)
TrimEnd(s) ==
    IF s # <<>> /\ IsSpace(s[Len(s)]) THEN TrimEnd(SubSeq(s, 1, Len(s) - 1)) ELSE s
Trim(s) == TrimEnd(SkipSpace(s))

NonEmpty(s) == s # <<>>
MapTrim(list) == [i \in 1..Len(list) |-> Trim(list[i])]
ParseNames(namesRaw) == SelectSeq(MapTrim(Split(namesRaw, <<>>, <<>>)), NonEmpty)

\* s.split(/\r?\n/) and s.split(","), continuing from the piece cur and the
\* pieces acc.
RECURSIVE SplitLines(_, _, _)
SplitLines(s, cur, acc) ==
    IF s = <<>> THEN Append(acc, cur)
    ELSE IF Head(s) = "\n" THEN SplitLines(Tail(s), <<>>, Append(acc, cur))
    ELSE IF Head(s) = "\r" /\ Len(s) >= 2 /\ s[2] = "\n"
    THEN SplitLines(Tail(Tail(s)), <<>>, Append(acc, cur))
    ELSE SplitLines(Tail(s), Append(cur, Head(s)), acc)

RECURSIVE SplitComma(_, _, _)
SplitComma(s, cur, acc) ==
    IF s = <<>> THEN Append(acc, cur)
    ELSE IF Head(s) = "," THEN SplitComma(Tail(s), <<>>, Append(acc, cur))
    ELSE SplitComma(Tail(s), Append(cur, Head(s)), acc)

\* toLowerCase on the letters A to Z.
UpperCase == <<"A", "B", "C", "D", "E", "F", "G", "H", "I", "J", "K", "L", "M",
               "N", "O", "P", "Q", "R", "S", "T", "U", "V", "W", "X", "Y", "Z">>
LowerCase == <<"a", "b", "c", "d", "e", "f", "g", "h", "i", "j", "k", "l", "m",
               "n", "o", "p", "q", "r", "s", "t", "u", "v", "w", "x", "y", "z">>
toLowerCase(s) ==
    [i \in 1..Len(s) |->
        IF \E k \in 1..26 : UpperCase[k] = s[i]
        THEN LowerCase[CHOOSE k \in 1..26 : UpperCase[k] = s[i]]
        ELSE s[i]]

\* list.join("\n")
RECURSIVE Join(_)
Join(list) ==
    IF list = <<>> THEN <<>>
    ELSE IF Len(list) = 1 THEN list[1]
    ELSE list[1] \o <<"\n">> \o Join(Tail(list))

\* The column headers that hold names.
NameHeaders == {<<"n", "a", "m", "e">>, <<"f", "u", "l", "l", " ", "n", "a", "m", "e">>}

\* findIndex over the header cells: the first cell that is a name header, as
\* an index from 0, or -1.
FirstNameColumnLast(header) ==
    IF \E k \in 1..Len(header) : header[k] \in NameHeaders
    THEN (CHOOSE k \in 1..Len(header) :
            header[k] \in NameHeaders /\ \A j \in (k + 1)..Len(header) : header[j] \notin NameHeaders) - 1
    ELSE -1
FirstNameColumn(header) ==
    IF \E k \in 1..Len(header) : header[k] \in NameHeaders
    THEN (CHOOSE k \in 1..Len(header) :
            header[k] \in NameHeaders /\ \A j \in 1..(k - 1) : header[j] \notin NameHeaders) - 1
    ELSE -1

\* The list that reader.onload of handleCSVUpload extracts from the text of
\* the file.
ExtractNames(txt) ==
    LET lines == SelectSeq(SplitLines(txt, <<>>, <<>>), NonEmpty)
        Cells(ln) == SplitComma(ln, <<>>, <<>>)
        header == IF lines = <<>> THEN <<>>
                  ELSE [k \in 1..Len(Cells(lines[1])) |-> toLowerCase(Trim(Cells(lines[1])[k]))]
        nameCol == FirstNameColumn(header)
        Field(ln, col) == IF col + 1 <= Len(Cells(ln)) THEN Cells(ln)[col + 1] ELSE <<>>
    IN  IF nameCol >= 0
        THEN SelectSeq([k \in 1..(Len(lines) - 1) |-> Trim(Field(lines[k + 1], nameCol))], NonEmpty)
        ELSE SelectSeq([k \in 1..Len(lines) |-> Trim(Field(lines[k], 0))], NonEmpty)

\* Every entry given its default, whatever it held.
ReassignAll(prev, list, photoCount) ==
    [i \in 1..Len(list) |-> IF photoCount > 0 THEN (i - 1) % photoCount ELSE -1]
\* The updater of setImgIndexByName: prev cut or extended to the length of
\* list, an entry that holds no number yet getting its default. Entry i of
\* the code is entry i + 1 here.
Reassign(prev, list, photoCount) ==
    [i \in 1..Len(list) |->
        IF i <= Len(prev) THEN prev[i]
        ELSE IF photoCount > 0 THEN (i - 1) % photoCount ELSE -1]

\* The effect keeping the labels edited so far, as it keeps the photo indices.
NamesEffectKeepEdits(d) ==
    LET list == ParseNames(d.namesRaw)
    IN  [d EXCEPT !.names = list,
                  !.nameEdits = [i \in 1..Len(list) |->
                                    IF i <= Len(d.nameEdits) THEN d.nameEdits[i] ELSE list[i]],
                  !.imgIndexByName = Reassign(d.imgIndexByName, list, Len(d.imageURLs))]

\* The effect with dependencies [namesRaw, imageURLs.length].
NamesEffect(d) ==
    LET list == ParseNames(d.namesRaw)
    IN  [d EXCEPT !.names = list, !.nameEdits = list,
                  !.imgIndexByName = Reassign(d.imgIndexByName, list, Len(d.imageURLs))]

\* A length the code computes as num / den, kept as the fraction.
Frac(num, den) == [n |-> IF IsNaN(den) THEN NaN ELSE num, d |-> den]

tagSize(d) ==
    LET contentW == nSub(PAPER[d.paper].w, nMul(2, d.margin))
        contentH == nSub(PAPER[d.paper].h, nMul(2, d.margin))
    IN  [w |-> Frac(nSub(contentW, nMul(d.gutter, nSub(d.cols, 1))), d.cols),
         h |-> Frac(nSub(contentH, nMul(d.gutter, nSub(d.rows, 1))), d.rows)]

\* margin + k * (size + gutter), over the denominator of size.
CellStart(d, k, size) ==
    Frac(nAdd(nMul(d.margin, size.d), nMul(k, nAdd(size.n, nMul(d.gutter, size.d)))), size.d)

\* Math.ceil(n / k) for n >= 0.
MathCeil(n, k) == IF IsNaN(k) THEN NaN ELSE (n + k - 1) \div k

\* A call of generatePDF: what its closure holds (cfg, the state of the render
\* that made it), its loop variables, the pages written so far, whether the
\* object URLs it holds have been revoked, whether generatePDF has been
\* called again since (superseded), and where it stands.
NewRun(d) ==
    [cfg |-> d, pageCount |-> MathCeil(Len(d.names), nMul(d.rows, d.cols)),
     p |-> 0, r |-> 0, c |-> 0, nameIdx |-> 0,
     pages |-> << <<>> >>, revoked |-> FALSE, superseded |-> FALSE, status |-> "run"]

\* The cell put at the head of the page, as if its writes overtook those of
\* the cells before it.
PutCellFirst(e, photo) ==
    LET d == e.cfg
        i == e.nameIdx + 1
        cell == [idx |-> e.nameIdx, r |-> e.r, c |-> e.c,
                 x |-> CellStart(d, e.c, tagSize(d).w),
                 y |-> CellStart(d, e.r, tagSize(d).h),
                 photo |-> photo,
                 label |-> IF d.nameEdits[i] # <<>> THEN d.nameEdits[i] ELSE d.names[i]]
    IN  [e EXCEPT !.pages[Len(e.pages)] = <<cell>> \o @,
                  !.nameIdx = @ + 1, !.c = @ + 1]
\* The body of the inner loop from the name text to nameIdx++, photo being the
\* index of the photo added to the cell (-1: none).
PutCell(e, photo) ==
    LET d == e.cfg
        i == e.nameIdx + 1
        cell == [idx |-> e.nameIdx, r |-> e.r, c |-> e.c,
                 x |-> CellStart(d, e.c, tagSize(d).w),
                 y |-> CellStart(d, e.r, tagSize(d).h),
                 photo |-> photo,
                 label |-> IF d.nameEdits[i] # <<>> THEN d.nameEdits[i] ELSE d.names[i]]
    IN  [e EXCEPT !.pages[Len(e.pages)] = Append(@, cell),
                  !.nameIdx = @ + 1, !.c = @ + 1]

\* Whether the cell of entry nameIdx takes a photo.
WantsPhoto(e) ==
    LET imgIdx == e.cfg.imgIndexByName[e.nameIdx + 1]
    IN  e.cfg.includePhoto /\ imgIdx >= 0 /\ imgIdx < Len(e.cfg.imageURLs)

\* The loops, run from the test of the inner loop up to the next await
\* ("await"), to a fetch of a revoked object URL, which rejects ("failed"),
\* or to doc.save ("save").
RECURSIVE Advance(_)
Advance(e) ==
    IF IsNaN(e.pageCount) \/ e.p >= e.pageCount THEN [e EXCEPT !.status = "save"]
    ELSE IF e.r >= e.cfg.rows
    THEN Advance([e EXCEPT !.p = @ + 1, !.r = 0, !.c = 0,
                           !.pages = IF e.p + 1 < e.pageCount THEN Append(@, <<>>) ELSE @])
    ELSE IF e.c >= e.cfg.cols \/ e.nameIdx >= Len(e.cfg.names)
    THEN Advance([e EXCEPT !.r = @ + 1, !.c = 0])
    ELSE IF WantsPhoto(e)
    THEN [e EXCEPT !.status = IF e.revoked THEN "failed" ELSE "await"]
    ELSE Advance(PutCell(e, -1))

\* What doc.save writes, with the call that wrote it.
DoorDoc(e) ==
    [name |-> "door-tags.pdf", pages |-> e.pages,
     req |-> [n |-> Len(e.cfg.names), rows |-> e.cfg.rows, cols |-> e.cfg.cols],
     superseded |-> e.superseded, cfg |-> e.cfg]

RemoveAt(s, k) == [i \in 1..(Len(s) - 1) |-> IF i < k THEN s[i] ELSE s[i + 1]]

\* Nothing stops a call of generatePDF while others are suspended: they stay
\* as they are, suspended, and are marked as followed by a later call.
Superseded(rs) == [k \in 1..Len(rs) |-> [rs[k] EXCEPT !.superseded = TRUE]]

\* generatePDF of DoorTags, from the call to its first await or its return.
DoorGeneratePDF ==
    /\ tab = "door"
    /\ IF dt.names = <<>>
       THEN /\ alertMsg' = "Please add at least one name."
            /\ saved' = NoDoc
            /\ UNCHANGED runs
       ELSE LET e == Advance(NewRun(dt))
            IN  /\ alertMsg' = ""
                /\ saved' = IF e.status = "save" THEN DoorDoc(e) ELSE NoDoc
                /\ runs' = IF e.status = "await"
                           THEN Append(Superseded(runs), e) ELSE Superseded(runs)
    /\ canvases' = 0
    /\ UNCHANGED <<tab, ps, loading, dt>>

\* The photo of the cell under way has loaded: run k goes on to its next
\* await or its return.
PhotoLoaded(k) ==
    /\ k \in 1..Len(runs)
    /\ LET e == Advance(PutCell(runs[k], runs[k].cfg.imgIndexByName[runs[k].nameIdx + 1]))
       IN  /\ saved' = IF e.status = "save" THEN DoorDoc(e) ELSE NoDoc
           /\ runs' = IF e.status = "await" THEN [runs EXCEPT ![k] = e] ELSE RemoveAt(runs, k)
    /\ alertMsg' = ""
    /\ canvases' = 0
    /\ UNCHANGED <<tab, ps, loading, dt>>

Revoked(rs) == [k \in 1..Len(rs) |-> [rs[k] EXCEPT !.revoked = TRUE]]

DoorSetNamesRaw(text) ==
    /\ tab = "door"
    /\ dt' = IF text # dt.namesRaw THEN NamesEffect([dt EXCEPT !.namesRaw = text]) ELSE dt
    /\ Quiet
    /\ UNCHANGED <<tab, ps, loading, runs>>

\* setFiles with n files and its effect: the object URLs made before are
\* revoked, and the names effect runs when the number of URLs changed.
DoorSetFiles(n) ==
    /\ tab = "door"
    /\ LET d == [dt EXCEPT !.imageURLs = [i \in 1..n |-> i]]
       IN  dt' = IF n # Len(dt.imageURLs) THEN NamesEffect(d) ELSE d
    /\ runs' = Revoked(runs)
    /\ Quiet
    /\ UNCHANGED <<tab, ps, loading>>

\* reader.onload of handleCSVUpload for a file with the text txt.
DoorUploadCSV(txt) == DoorSetNamesRaw(Join(ExtractNames(txt)))

DoorSelectPhoto(i, v) ==
    /\ tab = "door"
    /\ i \in 1..Len(dt.names)
    /\ v \in -1..(Len(dt.imageURLs) - 1)
    /\ dt' = [dt EXCEPT !.imgIndexByName[i] = v]
    /\ Quiet
    /\ UNCHANGED <<tab, ps, loading, runs>>

DoorEditName(i, text) ==
    /\ tab = "door"
    /\ i \in 1..Len(dt.names)
    /\ dt' = [dt EXCEPT !.nameEdits[i] = text]
    /\ Quiet
    /\ UNCHANGED <<tab, ps, loading, runs>>

DoorSetPaper(v) == tab = "door" /\ dt' = [dt EXCEPT !.paper = v] /\ Quiet /\ UNCHANGED <<tab, ps, loading, runs>>
DoorSetRows(raw) == tab = "door" /\ dt' = [dt EXCEPT !.rows = clamp(parseInt(OrElse(raw, <<"1">>)), 1, 12)] /\ Quiet /\ UNCHANGED <<tab, ps, loading, runs>>
DoorSetCols(raw) == tab = "door" /\ dt' = [dt EXCEPT !.cols = clamp(parseInt(OrElse(raw, <<"1">>)), 1, 12)] /\ Quiet /\ UNCHANGED <<tab, ps, loading, runs>>
DoorSetMargin(raw) == tab = "door" /\ dt' = [dt EXCEPT !.margin = clamp(parseInt(OrElse(raw, <<"0">>)), 0, 30)] /\ Quiet /\ UNCHANGED <<tab, ps, loading, runs>>
DoorSetGutter(raw) == tab = "door" /\ dt' = [dt EXCEPT !.gutter = clamp(parseInt(OrElse(raw, <<"0">>)), 0, 20)] /\ Quiet /\ UNCHANGED <<tab, ps, loading, runs>>
DoorSetFontSize(raw) == tab = "door" /\ dt' = [dt EXCEPT !.fontSize = clamp(parseInt(OrElse(raw, <<"1", "8">>)), 10, 48)] /\ Quiet /\ UNCHANGED <<tab, ps, loading, runs>>
DoorSetIncludePhoto(b) == tab = "door" /\ dt' = [dt EXCEPT !.includePhoto = b] /\ Quiet /\ UNCHANGED <<tab, ps, loading, runs>>

(***************************************************************************)
(* App                                                                     *)
(***************************************************************************)
\* setTab: the other component is mounted afresh; the one unmounted loses its
\* state, an image still loading no longer reaches it, and the cleanup of the
\* DoorTags effect revokes its object URLs.
SetTab(t) ==
    /\ t # tab
    /\ tab' = t
    /\ ps' = PosterInit
    /\ loading' = {}
    /\ dt' = DoorInit
    /\ runs' = Revoked(runs)
    /\ Quiet

(***************************************************************************)
(* What the user enters                                                    *)
(***************************************************************************)
\* The most photos uploaded at once.
MaxPhotos == 2
\* The most calls of the door-tag generatePDF suspended at an await at once.
MaxRuns == 1

ColsRawChoices == {<<"3">>, <<"6">>, <<"8">>, <<"1", "3">>}
RowsRawChoices == {<<"3">>, <<"4">>, <<"8">>, <<"5">>}
MarginRawChoices == {<<"0">>, <<"1", "8">>}
OverlapRawChoices == {<<"5">>, <<"0">>, <<"2", "0">>}
DpiRawChoices == {<<"3", "0", "0">>, <<"2", "9", "2">>, <<"9", "6">>}
Images == {[width |-> 2000, height |-> 3000]}

Init ==
    /\ tab = "splitter"
    /\ ps = PosterInit
    /\ loading = {}
    /\ dt = DoorInit
    /\ runs = <<>>
    /\ alertMsg = ""
    /\ saved = NoDoc
    /\ canvases = 0

Next ==
    \/ \E f \in Images \cup {NoImg} : SetFile(f)
    \/ \E i \in Images : ImgOnload(i)
    \/ \E v \in ColsRawChoices : SetColsRaw(v)
    \/ \E v \in RowsRawChoices : SetRowsRaw(v)
    \/ \E v \in MarginRawChoices : SetMarginRaw(v)
    \/ \E v \in OverlapRawChoices : SetOverlapRaw(v)
    \/ \E v \in DpiRawChoices : SetDpiRaw(v)
    \/ \E v \in {"A4", "Letter"} : SetPaper(v)
    \/ \E v \in {"auto", "portrait", "landscape"} : SetOrientation(v)
    \/ GeneratePDF
    \/ \E t \in {"splitter", "door"} : SetTab(t)

Spec == Init /\ [][Next]_vars

(***************************************************************************)
(* DoorTags: names, photos and export                                      *)
(***************************************************************************)
NamesRawChoices ==
    {<<>>, <<"a", ",", "b">>, <<"a", "\n", " ", "b", "\r", "\n", "a">>}
DoorRowsRawChoices == {<<"1">>, <<".", "5">>}
DoorColsRawChoices == {<<"2">>}

\* The controls that no call of generatePDF in flight can see: a call reads
\* the state of the render that made it.
DoorControls ==
    \/ \E text \in NamesRawChoices : DoorSetNamesRaw(text)
    \/ \E i \in 1..3, v \in -1..(MaxPhotos - 1) : DoorSelectPhoto(i, v)
    \/ \E raw \in DoorRowsRawChoices : DoorSetRows(raw)
    \/ \E raw \in DoorColsRawChoices : DoorSetCols(raw)
    \/ \E b \in BOOLEAN : DoorSetIncludePhoto(b)

NextDoor ==
    \/ runs = <<>> /\ DoorControls
    \/ \E n \in 0..MaxPhotos : DoorSetFiles(n)
    \/ Len(runs) < MaxRuns /\ DoorGeneratePDF
    \/ \E k \in 1..MaxRuns : PhotoLoaded(k)
    \/ \E t \in {"splitter", "door"} : SetTab(t)

SpecDoor == Init /\ [][NextDoor]_vars

(***************************************************************************)
(* The whole application. While a call of generatePDF of DoorTags is in    *)
(* flight the user keeps to the controls that reach it.                    *)
(***************************************************************************)
NextApp ==
    \/ runs = <<>> /\ Next
    \/ NextDoor

SpecApp == Init /\ [][NextApp]_vars

(***************************************************************************)
(* PosterSplitter: the resolution guardrail                                *)
(***************************************************************************)
ImagesDpi ==
    {[width |-> 5000, height |-> 5000], [width |-> 5001, height |-> 5000],
     [width |-> 10000, height |-> 5000], [width |-> 5000, height |-> 10001]}
DpiRawChoicesWide ==
    {<<>>, <<"x">>, <<"5", "0">>, <<"9", "6">>, <<"2", "0", "0">>, <<"2", "0", "1">>,
     <<"2", "4", "0">>, <<"2", "4", "1">>, <<"3", "0", "0">>, <<"6", "0", "0">>,
     <<"7", "0", "0">>}

NextDpi ==
    \/ \E f \in ImagesDpi \cup {NoImg} : SetFile(f)
    \/ \E i \in ImagesDpi : ImgOnload(i)
    \/ \E v \in DpiRawChoicesWide : SetDpiRaw(v)
    \/ \E v \in {"auto", "portrait", "landscape"} : SetOrientation(v)

SpecDpi == Init /\ [][NextDpi]_vars

(***************************************************************************)
(* DoorTags: the layout controls                                           *)
(***************************************************************************)
GridRawChoices == {<<>>, <<"0">>, <<"3">>, <<"4">>, <<"1", "2">>, <<"1", "3">>, <<".", "5">>}
MarginMmRawChoices == {<<>>, <<"1", "0">>, <<"3", "0">>, <<"3", "1">>, <<"-", ".", "5">>}
GutterMmRawChoices == {<<>>, <<"4">>, <<"2", "0">>, <<"2", "1">>, <<".", "5">>}

NextTag ==
    \/ \E text \in NamesRawChoices : DoorSetNamesRaw(text)
    \/ \E v \in {"A4", "Letter"} : DoorSetPaper(v)
    \/ \E raw \in GridRawChoices : DoorSetRows(raw)
    \/ \E raw \in GridRawChoices : DoorSetCols(raw)
    \/ \E raw \in MarginMmRawChoices : DoorSetMargin(raw)
    \/ \E raw \in GutterMmRawChoices : DoorSetGutter(raw)
    \/ DoorGeneratePDF
    \/ \E t \in {"splitter", "door"} : SetTab(t)

SpecTag == Init /\ [][NextTag]_vars

(***************************************************************************)
(* Door-tag exports started while others are in flight                     *)
(***************************************************************************)
\* The most calls of the door-tag generatePDF in flight at once when the
\* button is clicked again and again.
MaxClicks == 2
TwoNames == <<"a", ",", "b">>

NextReentry ==
    \/ DoorSetNamesRaw(TwoNames)
    \/ \E n \in {0, MaxPhotos} : DoorSetFiles(n)
    \/ runs = <<>> /\ \E i \in 1..2 : DoorSelectPhoto(i, -1)
    \/ Len(runs) < MaxClicks /\ DoorGeneratePDF
    \/ \E k \in 1..MaxClicks : PhotoLoaded(k)
    \/ \E t \in {"splitter", "door"} : SetTab(t)

SpecReentry == Init /\ [][NextReentry]_vars

(***************************************************************************)
(* DoorTags: names, edited labels and photo indices                        *)
(***************************************************************************)
LabelNamesRawChoices == {<<"a">>, <<" ", "b", "\n", ",", "c", " ">>}
LabelEditChoices == {<<>>, <<"z">>}

NextLabel ==
    \/ \E text \in LabelNamesRawChoices : DoorSetNamesRaw(text)
    \/ \E n \in {0, MaxPhotos} : DoorSetFiles(n)
    \/ runs = <<>> /\ \E i \in 1..2, text \in LabelEditChoices : DoorEditName(i, text)
    \/ runs = <<>> /\ DoorSelectPhoto(1, -1)
    \/ Len(runs) < MaxRuns /\ DoorGeneratePDF
    \/ \E k \in 1..MaxRuns : PhotoLoaded(k)
    \/ \E t \in {"splitter", "door"} : SetTab(t)

SpecLabel == Init /\ [][NextLabel]_vars

(***************************************************************************)
(* Name lists read from CSV files                                          *)
(***************************************************************************)
\* Files with a name column, with none, with blank lines, empty cells,
\* \r\n line ends and a lone \r, each with the names the file holds.
CsvCases ==
    {[txt |-> <<"N", "a", "m", "e", ",", "D", "e", "p", "t", "\n", "A", "n", "a", ",", "E", "n", "g", "\n", "B", "o", ",", "O", "p", "s">>,
      names |-> <<<<"A", "n", "a">>, <<"B", "o">>>>],
     [txt |-> <<"i", "d", ",", " ", "F", "u", "l", "l", " ", "N", "a", "m", "e", " ", "\r", "\n", "1", ",", " ", "A", "l", " ", "\r", "\n", "2", ",", "\r", "\n", "3", ",", "B", "o">>,
      names |-> <<<<"A", "l">>, <<"B", "o">>>>],
     [txt |-> <<"A", "n", "a", ",", "E", "n", "g", "\n", "\n", " ", "B", "o", " ", "\n", "C", "y">>,
      names |-> <<<<"A", "n", "a">>, <<"B", "o">>, <<"C", "y">>>>],
     [txt |-> <<>>,
      names |-> <<>>],
     [txt |-> <<"x", ",", "N", "A", "M", "E", "\n", "a">>,
      names |-> <<>>],
     [txt |-> <<"a", "\r", "b", ",", "c", "\n", "d">>,
      names |-> <<<<"a", "\r", "b">>, <<"d">>>>],
     [txt |-> <<"f", "u", "l", "l", " ", "n", "a", "m", "e", ",", "n", "a", "m", "e", "\n", "A", "l", ",", "B", "o">>,
      names |-> <<<<"A", "l">>>>],
     [txt |-> <<"N", "a", "m", "e", "s", "\n", "A", "l">>,
      names |-> <<<<"N", "a", "m", "e", "s">>, <<"A", "l">>>>]}

NextCsv ==
    \/ \E f \in CsvCases : DoorUploadCSV(f.txt)
    \/ \E n \in 0..MaxPhotos : DoorSetFiles(n)
    \/ \E i \in 1..3, v \in -1..(MaxPhotos - 1) : DoorSelectPhoto(i, v)
    \/ \E t \in {"splitter", "door"} : SetTab(t)

SpecCsv == Init /\ [][NextCsv]_vars

(***************************************************************************)
(* The poster export with both fit modes and images of several shapes      *)
(***************************************************************************)
ImagesFit ==
    {[width |-> 2000, height |-> 3000], [width |-> 3000, height |-> 2000],
     [width |-> 640, height |-> 480]}
FitColsRawChoices == {<<"1">>, <<"3">>}
FitRowsRawChoices == {<<"2">>, <<"3">>}

NextFit ==
    \/ \E f \in ImagesFit \cup {NoImg} : SetFile(f)
    \/ \E i \in ImagesFit : ImgOnload(i)
    \/ \E v \in FitColsRawChoices : SetColsRaw(v)
    \/ \E v \in FitRowsRawChoices : SetRowsRaw(v)
    \/ \E v \in {"auto", "portrait", "landscape"} : SetOrientation(v)
    \/ \E v \in {"cover", "contain"} : SetFitMode(v)
    \/ GeneratePDF
    \/ \E t \in {"splitter", "door"} : SetTab(t)

SpecFit == Init /\ [][NextFit]_vars

(***************************************************************************)
(* PosterSplitter: the page and its orientation                            *)
(***************************************************************************)
ImagesPage ==
    {[width |-> 2000, height |-> 3000], [width |-> 3000, height |-> 2000],
     [width |-> 1000, height |-> 1000]}
PageColsRawChoices == {<<"1">>, <<"2">>}

NextPage ==
    \/ \E f \in ImagesPage \cup {NoImg} : SetFile(f)
    \/ \E i \in ImagesPage : ImgOnload(i)
    \/ \E v \in PageColsRawChoices : SetColsRaw(v)
    \/ \E v \in {"A4", "Letter"} : SetPaper(v)
    \/ \E v \in {"auto", "portrait", "landscape"} : SetOrientation(v)
    \/ GeneratePDF
    \/ \E t \in {"splitter", "door"} : SetTab(t)

SpecPage == Init /\ [][NextPage]_vars

(***************************************************************************)
(* The numeric fields of both components, with entries out of range, empty *)
(* and with no integer part                                                *)
(***************************************************************************)
CountRawChoices == {<<>>, <<"0">>, <<"2", "1">>, <<".", "5">>}
LengthRawChoices == {<<>>, <<"-", "5">>, <<"3", "1">>, <<".", "5">>}
DpiRawChoicesOut == {<<>>, <<"0">>, <<"5", "0">>, <<"7", "0", "0">>, <<".", "5">>}
FontRawChoices == {<<>>, <<"9">>, <<"4", "9">>, <<"2", "4">>, <<".", "5">>}

NextClamp ==
    \/ \E v \in CountRawChoices : SetColsRaw(v)
    \/ \E v \in CountRawChoices : SetRowsRaw(v)
    \/ \E v \in LengthRawChoices : SetMarginRaw(v)
    \/ \E v \in LengthRawChoices : SetOverlapRaw(v)
    \/ \E v \in DpiRawChoicesOut : SetDpiRaw(v)
    \/ BlurCols
    \/ BlurRows
    \/ BlurMargin
    \/ BlurOverlap
    \/ BlurDpi
    \/ \E raw \in CountRawChoices : DoorSetRows(raw)
    \/ \E raw \in CountRawChoices : DoorSetCols(raw)
    \/ \E raw \in LengthRawChoices : DoorSetMargin(raw)
    \/ \E raw \in LengthRawChoices : DoorSetGutter(raw)
    \/ \E raw \in FontRawChoices : DoorSetFontSize(raw)
    \/ \E t \in {"splitter", "door"} : SetTab(t)

SpecClamp == Init /\ [][NextClamp]_vars

(***************************************************************************)
(* Properties                                                              *)
(***************************************************************************)
PosterSaved == saved.name = "PosterSplitter.pdf"
DoorSaved == saved.name = "door-tags.pdf"

\* C1: with an image loaded, the effective DPI is at most the requested DPI,
\* at most 200 for an image of more than 50 megapixels, at most 240 for one of
\* more than 25 and at most 50 megapixels, and otherwise the requested DPI
\* clamped to 96..600.
C1_SafeDpi ==
    LET r == requestedDpi
        e == effectiveDpi
        px == ps.img.width * ps.img.height
    IN  ps.img # NoImg =>
          /\ e <= r
          /\ px > 50000000 => e <= 200
          /\ (px > 25000000 /\ px <= 50000000) => e <= 240
          /\ px <= 25000000 => e = (IF r < 96 THEN 96 ELSE IF r > 600 THEN 600 ELSE r)

C1_Witness ==
    /\ ps.img # NoImg
    /\ ps.img.width * ps.img.height > 50000000
    /\ requestedDpi = 600
    /\ effectiveDpi = 200

\* C2: the virtual canvas is cols * contentWpx - (cols - 1) * overlapPx wide
\* (its height alike); the tile crops have the content size, start at
\* multiples of the content size less the overlap, begin at 0 and end at the
\* canvas edge; neighbours share a strip of exactly overlapPx, and tiles two
\* apart in a row or column share nothing.
C2_TilesCover ==
    LET g == Layout
        W == g.contentWpx
        H == g.contentHpx
        o == g.overlapPx
        X(c) == TileCrop(g, 0, c).sx
        Y(r) == TileCrop(g, r, 0).sy
    IN  /\ g.tgtW = g.cols * W - (g.cols - 1) * o
        /\ g.tgtH = g.rows * H - (g.rows - 1) * o
        /\ \A r \in 0..(g.rows - 1), c \in 0..(g.cols - 1) :
              TileCrop(g, r, c) = [sx |-> c * (W - o), sy |-> r * (H - o), w |-> W, h |-> H]
        /\ X(0) = 0 /\ X(g.cols - 1) + W = g.tgtW
        /\ Y(0) = 0 /\ Y(g.rows - 1) + H = g.tgtH
        /\ \A c \in 0..(g.cols - 2) : X(c) < X(c + 1) /\ X(c) + W - X(c + 1) = o
        /\ \A r \in 0..(g.rows - 2) : Y(r) < Y(r + 1) /\ Y(r) + H - Y(r + 1) = o
        /\ \A c \in 0..(g.cols - 3) : X(c) + W <= X(c + 2)
        /\ \A r \in 0..(g.rows - 3) : Y(r) + H <= Y(r + 2)

C2_Witness == PosterSaved /\ cols >= 3 /\ rows >= 3 /\ overlapPx > 0

\* C3: the tile limit is 64 inclusive: an export of more than 64 tiles saves
\* nothing and, with an image loaded, ends with the tile warning; an export of
\* at most 64 tiles never gets the tile warning.
C3_TileLimit ==
    tab = "splitter" =>
      /\ rows * cols > 64 =>
            /\ saved = NoDoc
            /\ (alertMsg # "" /\ ps.img # NoImg) => alertMsg = TileWarning
      /\ rows * cols <= 64 => alertMsg # TileWarning

C3_Witness == PosterSaved /\ rows * cols = 64 /\ Len(saved.pages) = 64

\* C4: with an image and at most 64 tiles, the export is rejected with the
\* canvas warning exactly when the area of the virtual canvas exceeds
\* 12000 x 12000: a canvas of 12000 x 12000 passes, one of 12001 x 12000 does
\* not.
C4_CanvasCap ==
    /\ CanvasTooLarge(12001, 12000)
    /\ ~CanvasTooLarge(12000, 12000)
    /\ (tab = "splitter" /\ ps.img # NoImg /\ rows * cols <= 64) =>
          /\ tgtW * tgtH > 144000000 =>
                saved = NoDoc /\ (alertMsg # "" => alertMsg = CanvasWarning)
          /\ tgtW * tgtH <= 144000000 => alertMsg = ""
    /\ alertMsg = CanvasWarning => tgtW * tgtH > 144000000

C4_Witness == PosterSaved /\ tgtW = 12000 /\ tgtH = 12000

\* The cells of the pages of a door-tag document, in page order.
RECURSIVE Flatten(_)
Flatten(pages) == IF pages = <<>> THEN <<>> ELSE Head(pages) \o Flatten(Tail(pages))

\* C5: a handler that alerts saves nothing; a poster document is saved only
\* with an image, at most 64 tiles and a canvas within the cap, and holds one
\* page per tile; a door-tag document is saved only for a non-empty name list
\* and, on a grid of rows x cols cells, holds every entry.
C5_NoSaveOnFailure ==
    /\ alertMsg # "" => saved = NoDoc
    /\ PosterSaved =>
          /\ ps.img # NoImg
          /\ rows * cols <= 64
          /\ tgtW * tgtH <= 144000000
          /\ Len(saved.pages) = rows * cols
    /\ DoorSaved =>
          /\ saved.req.n >= 1
          /\ (~IsNaN(saved.req.rows) /\ ~IsNaN(saved.req.cols)) =>
                Len(Flatten(saved.pages)) = saved.req.n

C5_Witness == alertMsg = TileWarning /\ rows * cols = 65 /\ saved = NoDoc

\* C6: a door-tag document of N entries on a grid of K = rows * cols cells has
\* ceil(N / K) pages, K entries on every page but the last, the rest on the
\* last, and the entries in input order, row by row.
C6_Pagination ==
    DoorSaved =>
      LET N == saved.req.n
          K == saved.req.rows * saved.req.cols
          pages == saved.pages
      IN  /\ ~IsNaN(saved.req.rows) /\ ~IsNaN(saved.req.cols)
          /\ Len(pages) * K >= N /\ (Len(pages) - 1) * K < N
          /\ \A p \in 1..Len(pages) :
                /\ Len(pages[p]) = IF p < Len(pages) THEN K ELSE N - (Len(pages) - 1) * K
                /\ \A j \in 1..Len(pages[p]) :
                      /\ pages[p][j].idx = (p - 1) * K + (j - 1)
                      /\ pages[p][j].r = (j - 1) \div saved.req.cols
                      /\ pages[p][j].c = (j - 1) % saved.req.cols

\* A document saved without its two entries: the row count is NaN.
C6_Witness == DoorSaved /\ saved.req.n = 2 /\ IsNaN(saved.req.rows) /\ Flatten(saved.pages) = <<>>

\* The pagination of C6 for a grid whose rows and cols are numbers.
C6_PaginationOfNumbers ==
    (DoorSaved /\ ~IsNaN(saved.req.rows) /\ ~IsNaN(saved.req.cols)) => C6_Pagination

\* C7: a saved poster document has rows * cols pages of one format and
\* orientation, each with one tile, tile (r, c) on page r * cols + c.
C7_RowMajorPages ==
    PosterSaved =>
      /\ Len(saved.pages) = rows * cols
      /\ \A r \in 0..(rows - 1), c \in 0..(cols - 1) :
            LET pg == saved.pages[r * cols + c + 1]
            IN  /\ pg.format = <<P.w, P.h>>
                /\ pg.orientation = saved.pages[1].orientation
                /\ Len(pg.images) = 1
                /\ pg.images[1].r = r /\ pg.images[1].c = c

C7_Witness == PosterSaved /\ cols = 6 /\ rows = 4

\* A number of the door-tag arithmetic that is not NaN.
IsNumber(q) == ~IsNaN(q.n) /\ ~IsNaN(q.d)

\* C8: the cells divide the content area exactly: cols cell widths and
\* cols - 1 gutters make up the page width less two margins (the height
\* alike); the first cell starts at the margin, the last ends at the page
\* width less the margin, neighbours are one gutter apart; A4 with 4 rows,
\* 3 columns, margin 10 and gutter 4 has cells of 182/3 mm by 66.25 mm; and
\* every cell of a saved document lies inside the content area.
C8_CellGrid ==
    tab = "door" =>
      LET s == tagSize(dt)
          W == PAPER[dt.paper].w
          H == PAPER[dt.paper].h
          X(k) == CellStart(dt, k, s.w)
          Y(k) == CellStart(dt, k, s.h)
      IN  /\ IsNumber(s.w) /\ IsNumber(s.h)
          /\ dt.cols * s.w.n + (dt.cols - 1) * dt.gutter * s.w.d = (W - 2 * dt.margin) * s.w.d
          /\ dt.rows * s.h.n + (dt.rows - 1) * dt.gutter * s.h.d = (H - 2 * dt.margin) * s.h.d
          /\ X(0).n = dt.margin * s.w.d
          /\ Y(0).n = dt.margin * s.h.d
          /\ X(dt.cols - 1).n + s.w.n = (W - dt.margin) * s.w.d
          /\ Y(dt.rows - 1).n + s.h.n = (H - dt.margin) * s.h.d
          /\ \A k \in 0..(dt.cols - 2) : X(k + 1).n - (X(k).n + s.w.n) = dt.gutter * s.w.d
          /\ \A k \in 0..(dt.rows - 2) : Y(k + 1).n - (Y(k).n + s.h.n) = dt.gutter * s.h.d
          /\ (dt.paper = "A4" /\ dt.rows = 4 /\ dt.cols = 3 /\ dt.margin = 10 /\ dt.gutter = 4) =>
                /\ 3 * s.w.n = 182 * s.w.d
                /\ 4 * s.h.n = 265 * s.h.d
          /\ DoorSaved =>
                \A p \in 1..Len(saved.pages) : \A j \in 1..Len(saved.pages[p]) :
                    LET cell == saved.pages[p][j]
                    IN  /\ cell.x = X(cell.c) /\ cell.y = Y(cell.r)
                        /\ cell.x.n >= dt.margin * s.w.d
                        /\ cell.x.n + s.w.n <= (W - dt.margin) * s.w.d
                        /\ cell.y.n >= dt.margin * s.h.d
                        /\ cell.y.n + s.h.n <= (H - dt.margin) * s.h.d

\* The cell grid of C8 for a layout whose rows, cols, margin and gutter are
\* numbers.
C8_CellGridOfNumbers ==
    (~IsNaN(dt.rows) /\ ~IsNaN(dt.cols) /\ ~IsNaN(dt.margin) /\ ~IsNaN(dt.gutter)) => C8_CellGrid

\* A layout with a NaN in it: the cell width is NaN.
C8_Witness == tab = "door" /\ IsNaN(dt.cols) /\ ~IsNumber(tagSize(dt).w)

\* k = round(mm / 25.4 * d): k - 1/2 <= mm * d * 10 / 254 < k + 1/2.
IsRounded(k, mm, d) == 254 * (2 * k - 1) <= 20 * mm * d /\ 20 * mm * d < 254 * (2 * k + 1)

\* The lengths in mm that the layout converts to pixels.
LayoutMm == {P.w - 2 * margin, P.h - 2 * margin, overlap}

\* mmToPx rounds mm / 25.4 * d to the nearest integer, d being dpi clamped to
\* 96..600.
RoundsClamped ==
    /\ contentWpx = mmToPx(P.w - 2 * margin, effectiveDpi)
    /\ contentHpx = mmToPx(P.h - 2 * margin, effectiveDpi)
    /\ overlapPx = mmToPx(overlap, effectiveDpi)
    /\ \A mm \in LayoutMm :
          /\ IsRounded(mmToPx(mm, effectiveDpi), mm, effectiveDpi)
          /\ IsRounded(mmToPx(mm, 50), mm, 96)
          /\ IsRounded(mmToPx(mm, 700), mm, 600)
          /\ mmToPx(mm, 50) = mmToPx(mm, 96)
          /\ mmToPx(mm, 700) = mmToPx(mm, 600)

\* The statement of C9 as it stands, whatever the orientation of the page:
\* A4, 3 columns, margin 0, overlap 5 mm and 300 dpi give a content width of
\* 2480, an overlap of 59 and a canvas width of 7322.
C9_Original ==
    /\ RoundsClamped
    /\ (ps.paper = "A4" /\ cols = 3 /\ margin = 0 /\ overlap = 5 /\ requestedDpi = 300) =>
          contentWpx = 2480 /\ overlapPx = 59 /\ tgtW = 7322

\* C9: mmToPx rounds mm / 25.4 * d to the nearest integer, d being dpi clamped
\* to 96..600; A4 in portrait with 3 columns, margin 0, overlap 5 mm and an
\* effective DPI of 300 gives a content width of 2480, an overlap of 59 and a
\* canvas width of 7322.
C9_Rounding ==
    /\ RoundsClamped
    /\ (ps.paper = "A4" /\ effOrientation = "portrait" /\ cols = 3 /\ margin = 0
          /\ overlap = 5 /\ effectiveDpi = 300) =>
          contentWpx = 2480 /\ overlapPx = 59 /\ tgtW = 7322

C9_Witness ==
    /\ PosterSaved
    /\ ps.paper = "A4" /\ effOrientation = "portrait" /\ cols = 3 /\ margin = 0
    /\ overlap = 5 /\ effectiveDpi = 300
    /\ saved.pages[2].images[1].crop.sx = 2480 - 59
    /\ tgtW = 7322

\* C10: when the names effect runs (the text of the names or the number of
\* photos changed), the assignment of every position that had one is kept,
\* positions past the new list are dropped, and a new position i gets
\* i mod the number of photos, or -1 without photos.
C10_KeepAssignments ==
    [][(tab = "door" /\ tab' = "door"
          /\ (dt'.namesRaw # dt.namesRaw \/ Len(dt'.imageURLs) # Len(dt.imageURLs))) =>
         LET old == dt.imgIndexByName
             new == dt'.imgIndexByName
             photoCount == Len(dt'.imageURLs)
         IN  /\ Len(new) = Len(dt'.names)
             /\ \A i \in 1..Len(new) :
                   new[i] = IF i <= Len(old) THEN old[i]
                            ELSE IF photoCount > 0 THEN (i - 1) % photoCount ELSE -1]_vars

C10_Witness == tab = "door" /\ dt.imgIndexByName = <<-1, -1, 0>> /\ Len(dt.imageURLs) = 2

\* A whole number n with lo <= n <= hi.
InRange(n, lo, hi) == ~IsNaN(n) /\ lo <= n /\ n <= hi

\* The values the poster layout uses are within their ranges.
PosterRanges ==
    /\ InRange(cols, 1, 20) /\ InRange(rows, 1, 20)
    /\ InRange(margin, 0, 20) /\ InRange(overlap, 0, 20)
    /\ InRange(requestedDpi, 96, 600) /\ InRange(effectiveDpi, 96, 600)

\* The values the door-tag layout uses are within their ranges.
DoorRanges ==
    /\ InRange(dt.rows, 1, 12) /\ InRange(dt.cols, 1, 12)
    /\ InRange(dt.margin, 0, 30) /\ InRange(dt.gutter, 0, 20)
    /\ InRange(dt.fontSize, 10, 48)

\* C11: whatever is entered in the numeric fields, the values used for
\* layout stay within their ranges: poster columns and rows in 1..20, margin
\* and overlap in 0..20, DPI in 96..600; door-tag rows and columns in 1..12,
\* margin in 0..30, gutter in 0..20, label size in 10..48.
C11_ClampRanges == PosterRanges /\ DoorRanges

\* The poster half of C11.
C11_PosterRanges == PosterRanges

\* A door-tag row count that is NaN.
C11_Witness == tab = "door" /\ IsNaN(dt.rows)

\* C12: with an image loaded, the image drawn on the virtual canvas matches
\* the canvas in one dimension; to cover it is at least as wide and as high
\* as the canvas and its offsets are at most 0; to contain it is at most as
\* wide and as high and its offsets are at least 0; the space (or overflow)
\* on the left and on the right differ by at most one pixel, and so do those
\* above and below.
C12_FitCentred ==
    ps.img # NoImg =>
      \A d \in Draws :
        /\ d.drawW = tgtW \/ d.drawH = tgtH
        /\ ps.fitMode = "cover" =>
              d.drawW >= tgtW /\ d.drawH >= tgtH /\ d.dx <= 0 /\ d.dy <= 0
        /\ ps.fitMode = "contain" =>
              d.drawW <= tgtW /\ d.drawH <= tgtH /\ d.dx >= 0 /\ d.dy >= 0
        /\ d.dx - (tgtW - d.drawW - d.dx) \in {0, 1}
        /\ d.dy - (tgtH - d.drawH - d.dy) \in {0, 1}

\* An export that letterboxes: the image contained, narrower than the canvas.
C12_Witness ==
    /\ PosterSaved /\ ps.fitMode = "contain"
    /\ \E d \in Draws : d.drawW < tgtW /\ d.dx > 0 /\ d.drawH = tgtH

\* C13: the names extracted from a CSV file are those of its name column
\* after the header line when the header has one, else the first field of
\* every line; they are trimmed and not empty; and the name list parsed from
\* the joined text is the extracted list.
C13_CsvNames ==
    /\ \A f \in CsvCases :
          /\ ExtractNames(f.txt) = f.names
          /\ ParseNames(Join(ExtractNames(f.txt))) = f.names
    /\ tab = "door" =>
          /\ \E f \in CsvCases : dt.namesRaw = Join(f.names) /\ dt.names = f.names
          /\ \A i \in 1..Len(dt.names) : dt.names[i] # <<>> /\ Trim(dt.names[i]) = dt.names[i]

\* The file with the header Name,Dept read: the names are Ana and Bo.
C13_Witness ==
    /\ tab = "door"
    /\ dt.names = <<<<"A", "n", "a">>, <<"B", "o">>>>
    /\ dt.namesRaw = <<"A", "n", "a", "\n", "B", "o">>

\* C14: a door-tag export that was followed by another call of generatePDF
\* while it was suspended on a photo load saves no document.
C14_PriorAbandoned == DoorSaved => ~saved.superseded

\* The first of two calls in flight goes on to save its document while the
\* second is still suspended.
C14_Witness == DoorSaved /\ saved.superseded /\ runs # <<>>

\* The geometry the export works with: the values before its loops and the
\* step from one tile's crop to the next.
ExportGeometry ==
    LET g == Layout
    IN  [contentWpx |-> g.contentWpx, contentHpx |-> g.contentHpx,
         overlapPx |-> g.overlapPx, tgtW |-> g.tgtW, tgtH |-> g.tgtH,
         stepX |-> TileCrop(g, 1, 1).sx, stepY |-> TileCrop(g, 1, 1).sy]

\* The preview's geometry, its grid steps taken back from preview pixels to
\* export pixels, agrees with the export's.
PreviewAgrees ==
    LET v == Preview
        e == ExportGeometry
    IN  /\ v.contentWpx = e.contentWpx /\ v.contentHpx = e.contentHpx
        /\ v.overlapPx = e.overlapPx
        /\ v.tgtW = e.tgtW /\ v.tgtH = e.tgtH
        /\ v.stepX.px = e.stepX /\ v.stepX.k = v.k
        /\ v.stepY.px = e.stepY /\ v.stepY.k = v.k

\* The tiles of a saved document are cropped at the steps the preview's grid
\* shows.
SavedAgrees ==
    PosterSaved =>
        \A k \in 1..Len(saved.pages) : \A t \in {saved.pages[k].images[1]} :
            /\ t.crop.sx = t.c * Preview.stepX.px
            /\ t.crop.sy = t.r * Preview.stepY.px
            /\ t.crop.w = Preview.contentWpx /\ t.crop.h = Preview.contentHpx

\* The export's geometry computed again, in the state the export left, gives
\* the document the export saved.
Recomputed == PosterSaved => saved.pages = Pages(Layout)

\* C15: tile geometry is a function of its inputs alone (computed again from
\* the page, grid, margin, overlap, effective DPI, image and fit mode an
\* export worked from, it gives the tiles that export saved), and with an
\* image loaded the preview and the export derive the same contentWpx,
\* contentHpx, overlapPx, virtual canvas size and tile step.
C15_GeometryPure == ps.img # NoImg => (PreviewAgrees /\ SavedAgrees /\ Recomputed)

\* An export of several tiles with an overlap, made from the state the
\* preview shows.
C15_Witness ==
    /\ PosterSaved /\ ps.img # NoImg
    /\ cols > 1 /\ rows > 1 /\ overlapPx > 0
    /\ Len(saved.pages) = rows * cols

UploadWarning == "Please upload an image first."

\* C16: the poster export tests for a missing image, then the tile count, then
\* the canvas area, so the message of an abort names the first guard that
\* fails, and an abort has made no master canvas, no tile canvas and no
\* document; canvases and a document exist only when all three guards pass.
C16_GuardOrder ==
    tab = "splitter" =>
        /\ alertMsg = UploadWarning => ps.img = NoImg
        /\ alertMsg = TileWarning => ps.img # NoImg /\ TooManyTiles
        /\ alertMsg = CanvasWarning =>
              ps.img # NoImg /\ ~TooManyTiles /\ CanvasTooLarge(tgtW, tgtH)
        /\ alertMsg \in {UploadWarning, TileWarning, CanvasWarning} =>
              canvases = 0 /\ saved = NoDoc
        /\ (canvases > 0 \/ PosterSaved) =>
              /\ alertMsg = "" /\ ps.img # NoImg /\ ~TooManyTiles
              /\ ~CanvasTooLarge(tgtW, tgtH)
              /\ PosterSaved /\ canvases = 1 + rows * cols

\* An export aborted by the canvas guard, with an image and a passing tile
\* count, and nothing created.
C16_Witness ==
    /\ tab = "splitter" /\ alertMsg = CanvasWarning
    /\ ps.img # NoImg /\ ~TooManyTiles /\ canvases = 0 /\ saved = NoDoc

\* The layout a saved door-tag document was made with: the grid of the call
\* that saved it, and the paper, margin and gutter of the door tab.
SavedLayout == [dt EXCEPT !.rows = saved.req.rows, !.cols = saved.req.cols]

\* The layout holds numbers only.
NumericLayout(d) ==
    ~IsNaN(d.rows) /\ ~IsNaN(d.cols) /\ ~IsNaN(d.margin) /\ ~IsNaN(d.gutter)

\* C17: in a saved door-tag document entry i lies on page i div (rows * cols),
\* in row (i mod (rows * cols)) div cols and column i mod cols, at
\* x = margin + c * (cell width + gutter) and y = margin + r * (cell height +
\* gutter); every entry is placed exactly once, in the order of the input, and
\* no slot beyond the last entry is filled.
C17_SlotMapping ==
    DoorSaved =>
      LET d == SavedLayout
          N == saved.req.n
          K == d.rows * d.cols
          s == tagSize(d)
          cells == Flatten(saved.pages)
      IN  /\ NumericLayout(d) /\ IsNumber(s.w) /\ IsNumber(s.h)
          /\ Len(cells) = N
          /\ \A j \in 1..Len(cells) : cells[j].idx = j - 1
          /\ \A p \in 1..Len(saved.pages) : \A j \in 1..Len(saved.pages[p]) :
                LET cell == saved.pages[p][j]
                    i == cell.idx
                IN  /\ i < N
                    /\ p - 1 = i \div K
                    /\ cell.r = (i % K) \div d.cols
                    /\ cell.c = i % d.cols
                    /\ i = (p - 1) * K + cell.r * d.cols + cell.c
                    /\ IsNumber(cell.x) /\ IsNumber(cell.y)
                    /\ cell.x.n * s.w.d
                         = (d.margin * s.w.d + cell.c * (s.w.n + d.gutter * s.w.d)) * cell.x.d
                    /\ cell.y.n * s.h.d
                         = (d.margin * s.h.d + cell.r * (s.h.n + d.gutter * s.h.d)) * cell.y.d

\* The slot mapping of C17 for a layout of numbers.
C17_SlotMappingOfNumbers == NumericLayout(SavedLayout) => C17_SlotMapping

\* A document saved with a NaN margin: every entry is written, at a position
\* that is no number.
C17_Witness ==
    /\ DoorSaved /\ IsNaN(dt.margin)
    /\ Len(Flatten(saved.pages)) = saved.req.n
    /\ \A p \in 1..Len(saved.pages) : \A j \in 1..Len(saved.pages[p]) :
          ~IsNumber(saved.pages[p][j].x)

\* A document of numbers whose entries span two pages, the last page part
\* filled.
C17_TwoPages ==
    /\ DoorSaved /\ NumericLayout(SavedLayout)
    /\ Len(saved.pages) = 2 /\ Len(saved.pages[2]) < saved.req.rows * saved.req.cols

IsPrefix(s, t) == Len(s) <= Len(t) /\ \A j \in 1..Len(s) : s[j] = t[j]

\* A suspended door-tag export: it waits for the photo of one cell, the next
\* in row-major, page-major order; the cells before it are all written, in
\* that order, and none after it; every page but the last is full.
InOrder(e) ==
    LET cells == Flatten(e.pages)
        K == e.cfg.rows * e.cfg.cols
        last == e.pages[Len(e.pages)]
    IN  /\ e.status = "await" /\ WantsPhoto(e)
        /\ e.nameIdx < Len(e.cfg.names)
        /\ Len(cells) = e.nameIdx
        /\ \A j \in 1..Len(cells) : cells[j].idx = j - 1
        /\ Len(e.pages) = e.p + 1
        /\ \A q \in 1..(Len(e.pages) - 1) : Len(e.pages[q]) = K
        /\ Len(last) = e.r * e.cfg.cols + e.c /\ Len(last) < K
        /\ \A j \in 1..Len(last) : last[j].r * e.cfg.cols + last[j].c = j - 1

\* When the photo a call waits for has loaded, what the call had written
\* stays as it was and the next write is the cell that waited, with its photo.
\* A call that then fetches a revoked object URL ends there and leaves no
\* document to look at.
LoadKeepsOrder(k) ==
    LET e == runs[k]
        before == Flatten(e.pages)
        goesOn == Len(runs') = Len(runs)
        after == IF goesOn THEN Flatten(runs'[k].pages) ELSE Flatten(saved'.pages)
    IN  (goesOn \/ DoorSaved') =>
            /\ IsPrefix(before, after)
            /\ Len(after) > Len(before)
            /\ after[Len(before) + 1].idx = e.nameIdx
            /\ after[Len(before) + 1].photo = e.cfg.imgIndexByName[e.nameIdx + 1]

\* C18: a door-tag export writes its cells one at a time in row-major,
\* page-major order however long the photos take: a suspended call waits for
\* one photo, that of the next cell, with every earlier cell written and no
\* later one, and a page is appended only once the page before it is full.
C18_CellsInOrder ==
    [][runs' # runs =>
         /\ \A k \in 1..Len(runs') : InOrder(runs'[k])
         /\ \A k \in 1..Len(runs) : PhotoLoaded(k) => LoadKeepsOrder(k)]_vars

\* A call suspended on the photo of the first cell of its second page, the
\* first page written in full.
C18_Witness ==
    /\ runs # <<>>
    /\ Len(runs[1].pages) = 2 /\ runs[1].pages[2] = <<>>
    /\ Len(runs[1].pages[1]) = 2

\* The orientation choice asks for landscape: 'landscape', or 'auto' with an
\* image at least as wide as it is high.
WantsLandscape ==
    \/ ps.orientation = "landscape"
    \/ ps.orientation = "auto" /\ ps.img.width >= ps.img.height

\* C19: with an image loaded the page is the base paper with width and height
\* swapped, so at least as wide as high, exactly when the choice is
\* 'landscape' or it is 'auto' and the image is at least as wide as high, and
\* the base paper otherwise; every page of a saved document has this format,
\* and the orientation given for it is 'landscape' exactly when the format is
\* at least as wide as high.
C19_PageOrientation ==
    (tab = "splitter" /\ ps.img # NoImg) =>
        /\ WantsLandscape => P = [w |-> base.h, h |-> base.w] /\ P.w >= P.h
        /\ ~WantsLandscape => P = base /\ P.w < P.h
        /\ PosterSaved =>
              \A k \in 1..Len(saved.pages) :
                  /\ saved.pages[k].format = <<P.w, P.h>>
                  /\ saved.pages[k].orientation
                       = IF WantsLandscape THEN "landscape" ELSE "portrait"
                  /\ saved.pages[k].orientation = "landscape"
                       <=> saved.pages[k].format[1] >= saved.pages[k].format[2]

\* A document of two pages saved for a square image under 'auto': landscape.
C19_Witness ==
    /\ PosterSaved /\ ps.img # NoImg /\ ps.orientation = "auto"
    /\ ps.img.width = ps.img.height
    /\ Len(saved.pages) > 1 /\ saved.pages[2].orientation = "landscape"

\* Requested resolutions of 96 to 600, at and next to the two caps.
DpiRequests == {96, 200, 201, 240, 241, 600}

\* C20: for a requested DPI of 96 to 600 the reason is non-empty exactly when
\* the effective DPI is below the requested one, with the image loaded and
\* with every other resolution of that range; with no image the reason is
\* empty and the effective DPI is the requested one.
C20_ReasonIffReduced ==
    /\ requestedDpi \in 96..600
    /\ dpiReason # "" <=> effectiveDpi < requestedDpi
    /\ ps.img = NoImg => dpiReason = "" /\ effectiveDpi = requestedDpi
    /\ \A req \in DpiRequests :
          LET safe == computeSafeDpi(ps.img, req)
              none == computeSafeDpi(NoImg, req)
          IN  /\ safe.reason # "" <=> safe.dpi < req
              /\ none.reason = "" /\ none.dpi = req

\* An image of more than 50 megapixels with 300 DPI requested: the DPI is
\* lowered to 200 and the reason says so; 200 requested would pass unnoted.
C20_Witness ==
    /\ ps.img # NoImg /\ ps.img.width * ps.img.height > 50000000
    /\ requestedDpi = 300 /\ effectiveDpi = 200 /\ dpiReason # ""
    /\ computeSafeDpi(ps.img, 200).reason = ""

\* C21: in the door tab the cell width and the cell height are numbers
\* greater than zero.
C21_PositiveCells ==
    tab = "door" =>
        LET s == tagSize(dt)
        IN  /\ IsNumber(s.w) /\ IsNumber(s.h)
            /\ s.w.d > 0 /\ s.w.n > 0
            /\ s.h.d > 0 /\ s.h.n > 0

\* A layout of numbers, each within its range, whose gutters are wider than
\* the content area: the cell width is below zero.
C21_Witness ==
    /\ tab = "door" /\ NumericLayout(dt)
    /\ dt.cols \in 1..12 /\ dt.rows \in 1..12
    /\ dt.margin \in 0..30 /\ dt.gutter \in 0..20
    /\ tagSize(dt).w.d > 0 /\ tagSize(dt).w.n < 0

\* C22: in the door tab every entry's photo index is -1 or an index into the
\* photo list as it is now.
C22_ValidAssignments ==
    tab = "door" =>
        \A i \in 1..Len(dt.imgIndexByName) :
            \/ dt.imgIndexByName[i] = -1
            \/ dt.imgIndexByName[i] >= 0 /\ dt.imgIndexByName[i] < Len(dt.imageURLs)

\* Two entries assigned to two photos, then one photo uploaded in their
\* place: the second entry keeps index 1, which the list of one photo lacks.
C22_Witness ==
    /\ tab = "door" /\ Len(dt.names) = 2 /\ Len(dt.imageURLs) = 1
    /\ dt.imgIndexByName = <<0, 1>>

\* The photo the export made with d puts in the cell of entry i (from 0),
\* -1 for none: the entry's index when photos are included and the index is
\* one of d's photo list.
PhotoOf(d, i) ==
    LET v == d.imgIndexByName[i + 1]
    IN  IF d.includePhoto /\ v >= 0 /\ v < Len(d.imageURLs) THEN v ELSE -1

\* The cells follow the photo rule of d.
PhotoRule(d, cells) == \A j \in 1..Len(cells) : cells[j].photo = PhotoOf(d, cells[j].idx)

\* C23: a saved door-tag document holds a cell for every entry, with the
\* entry's photo exactly when photos are included and the entry's index is
\* at least 0 and within the photo list the export was made with, and without
\* a photo otherwise; the cells a suspended export has written follow the same
\* rule.
C23_PhotoRule ==
    /\ \A k \in 1..Len(runs) : PhotoRule(runs[k].cfg, Flatten(runs[k].pages))
    /\ DoorSaved =>
          /\ PhotoRule(saved.cfg, Flatten(saved.pages))
          /\ Len(Flatten(saved.pages)) = Len(saved.cfg.names)

\* The photo rule of C23 for a layout of numbers.
C23_PhotoRuleOfNumbers ==
    (DoorSaved => NumericLayout(saved.cfg)) => C23_PhotoRule

\* An export of entries without a usable photo through a grid whose rows are
\* NaN: the document is saved and holds no cell.
C23_Witness ==
    /\ DoorSaved /\ IsNaN(saved.cfg.rows) /\ Len(saved.cfg.names) > 0
    /\ \A i \in 0..(Len(saved.cfg.names) - 1) : PhotoOf(saved.cfg, i) = -1
    /\ Flatten(saved.pages) = <<>>

\* A saved document of numbers with a photo in one cell and none in another,
\* whose entry's index is beyond the photo list.
C23_StaleIndexSkipped ==
    /\ DoorSaved /\ NumericLayout(saved.cfg) /\ saved.cfg.includePhoto
    /\ \E i, j \in 1..Len(Flatten(saved.pages)) :
          /\ Flatten(saved.pages)[i].photo >= 0
          /\ Flatten(saved.pages)[j].photo = -1
          /\ saved.cfg.imgIndexByName[j] >= Len(saved.cfg.imageURLs)

\* Names, edited labels and photo indices have one length.
SameLength(d) == Len(d.nameEdits) = Len(d.names) /\ Len(d.imgIndexByName) = Len(d.names)

\* Every cell carries the edited label of its entry when that is not empty
\* and the entry's name otherwise, and never an empty label.
LabelRule(d, cells) ==
    \A j \in 1..Len(cells) :
        LET i == cells[j].idx + 1
        IN  /\ cells[j].label = IF d.nameEdits[i] # <<>> THEN d.nameEdits[i] ELSE d.names[i]
            /\ cells[j].label # <<>>

\* The names effect ran in the step: the names text or the number of photos
\* changed.
NamesEffectRan ==
    /\ tab = "door" /\ tab' = "door"
    /\ dt'.namesRaw # dt.namesRaw \/ Len(dt'.imageURLs) # Len(dt.imageURLs)

\* C24: a step that changes the names text or the number of photos leaves the
\* edited labels equal to the names parsed from the text and the photo indices
\* of the same length; names, edited labels and photo indices have one
\* length in every state, whatever was edited or selected since; and every
\* label written by an export is the entry's edited label when that is not
\* empty, its parsed name otherwise, and not empty.
C24_LabelsFollowNames ==
    [][/\ NamesEffectRan =>
            /\ dt'.names = ParseNames(dt'.namesRaw)
            /\ dt'.nameEdits = dt'.names
            /\ Len(dt'.imgIndexByName) = Len(dt'.names)
       /\ SameLength(dt')
       /\ \A k \in 1..Len(runs') :
              SameLength(runs'[k].cfg) /\ LabelRule(runs'[k].cfg, Flatten(runs'[k].pages))
       /\ DoorSaved' => LabelRule(saved'.cfg, Flatten(saved'.pages))]_vars

\* A saved document with an edited label on one cell and, on another whose
\* edited label was cleared, the parsed name.
C24_Witness ==
    /\ DoorSaved /\ Len(Flatten(saved.pages)) = 2
    /\ saved.cfg.nameEdits[1] = <<>> /\ Flatten(saved.pages)[1].label = saved.cfg.names[1]
    /\ saved.cfg.nameEdits[2] = <<"z">> /\ Flatten(saved.pages)[2].label = <<"z">>

====
